---- MODULE Spec2Model ----
(***************************************************************************)
(* Attestation aggregation by greedy maximum coverage                      *)
(* (shared/aggregation/attestations/maxcover.go).                          *)
(*                                                                         *)
(* Two engines run on their own copy of the same input list:               *)
(*   MaxCoverAttestationAggregation     (the mc variables)                 *)
(*   optMaxCoverAttestationAggregation  (the opt variables)                *)
(*                                                                         *)
(* A Go slice is modelled as a window (offset, length) on a backing array; *)
(* the array is a 1-based sequence, Go indices are kept 0-based and read   *)
(* through At.  A run-time panic (index out of range, nil dereference,     *)
(* slice bounds out of range) ends the engine in pc = "panic".             *)
(***************************************************************************)
EXTENDS Integers, Sequences, FiniteSets, TLC

\* Bounds of the model.
MaxAtts == 4
MaxBits == 3
MaxBadSigs == 1
LenMaxAtts == 3

VARIABLES
  input,      \* the list handed to both engines (each works on its own copy)
  mcPc, mcArr, mcUnLen, mcAgg, mcI, mcRes, mcErr, mcLog,
  optPc, optAtts, optCands, optAggLen, optUnOff, optUnLen, optCOff, optCLen,
  optCovered, optI, optRes, optErr, optLog

mcVars == <<mcPc, mcArr, mcUnLen, mcAgg, mcI, mcRes, mcErr, mcLog>>
optVars == <<optPc, optAtts, optCands, optAggLen, optUnOff, optUnLen, optCOff,
             optCLen, optCovered, optI, optRes, optErr, optLog>>
vars == <<input, mcVars, optVars>>

----------------------------------------------------------------------------
\* Values.

\* *ethpb.Attestation: id stands for the pointer (object identity), len and
\* bits for AggregationBits, sig for "Signature decodes".  id 0 is nil.
NilAtt == [id |-> 0, len |-> 0, bits |-> {}, sig |-> FALSE]
\* *bitfield.Bitlist64; len -1 is the nil pointer.
NilCand == [len |-> 0 - 1, bits |-> {}]

At(arr, i) == arr[i + 1]
Put(arr, i, v) == [arr EXCEPT ![i + 1] = v]
Swap(arr, i, j) == [arr EXCEPT ![i + 1] = arr[j + 1], ![j + 1] = arr[i + 1]]
Window(arr, off, len) == SubSeq(arr, off + 1, off + len)
InRange(i, len) == 0 <= i /\ i < len

Count(b) == Cardinality(b)
RECURSIVE UnionBits(_)
UnionBits(s) == IF s = <<>> THEN {} ELSE Head(s).bits \cup UnionBits(Tail(s))
RECURSIVE SumCount(_)
SumCount(s) == IF s = <<>> THEN 0 ELSE Count(Head(s).bits) + SumCount(Tail(s))
RECURSIVE SetToSeq(_)
SetToSeq(S) ==
  IF S = {} THEN <<>>
  ELSE LET m == CHOOSE x \in S : \A y \in S : x <= y
       IN <<m>> \o SetToSeq(S \ {m})
SeqToSet(s) == {s[i] : i \in 1..Len(s)}
BitsBag(s) == [b \in {s[i].bits : i \in 1..Len(s)} |->
                 Cardinality({i \in 1..Len(s) : s[i].bits = b})]

----------------------------------------------------------------------------
\* The solver: one round of greedy non-overlapping maximum coverage.

\* Among the candidates not yet selected, disjoint from what is covered and
\* adding at least one bit: the largest popcount, ties to the lowest index.
RECURSIVE Greedy(_, _, _, _)
Greedy(cands, k, keys, covered) ==
  LET usable == {i \in 0..(Len(cands) - 1) :
                   /\ i \notin SeqToSet(keys)
                   /\ At(cands, i).bits \cap covered = {}
                   /\ At(cands, i).bits # {}}
  IN IF Len(keys) >= k \/ usable = {}
     THEN [err |-> FALSE, keys |-> keys, coverage |-> covered]
     ELSE LET best == CHOOSE i \in usable : \A j \in usable :
                        \/ Count(At(cands, i).bits) > Count(At(cands, j).bits)
                        \/ /\ Count(At(cands, i).bits) = Count(At(cands, j).bits)
                           /\ i <= j
          IN Greedy(cands, k, Append(keys, best),
                    covered \cup At(cands, best).bits)

\* aggregation.MaxCover / MaxCoverProblem.Cover with allowOverlaps = false.
\* InvalidProblem for an empty candidate list or a zero-length candidate.
MaxCover(cands, k) ==
  IF Len(cands) = 0 \/ \E i \in 1..Len(cands) : cands[i].len = 0
  THEN [err |-> TRUE, keys |-> <<>>, coverage |-> {}]
  ELSE Greedy(cands, IF Len(cands) < k THEN Len(cands) ELSE k, <<>>, {})

\* NewMaxCover: candidate i carries key i and the bits of atts[i].
NewMaxCover(atts) == [i \in 1..Len(atts) |-> [len |-> atts[i].len, bits |-> atts[i].bits]]

----------------------------------------------------------------------------
\* attList helpers.

\* Mutant of validate: the comparison loop starts one item too late.
validateFromThird(al) ==
  IF Len(al) = 0 THEN "invalid"
  ELSE IF al[1].len = 0 THEN "invalid"
  ELSE IF \E i \in 3..Len(al) : al[i].len # al[1].len THEN "difflen"
  ELSE "ok"

\* "ok", "invalid" (ErrInvalidMaxCoverProblem) or "difflen" (ErrBitsDifferentLen).
validate(al) ==
  IF Len(al) = 0 THEN "invalid"
  ELSE IF al[1].len = 0 THEN "invalid"
  ELSE IF \E i \in 2..Len(al) : al[i].len # al[1].len THEN "difflen"
  ELSE "ok"

\* Mutant of merge: the second list is dropped.
mergeFirst(al, al1) == al

merge(al, al1) == al \o al1

\* Mutant of selectUsingKeys: the position is used in place of the key.
selectUsingKeysByPos(al, keys) == [i \in 1..Len(keys) |-> al[i]]

selectUsingKeys(al, keys) == [i \in 1..Len(keys) |-> At(al, keys[i])]

\* The items whose index is not a key, in their order.
RECURSIVE Complement(_, _, _)
Complement(al, keys, i) ==
  IF i >= Len(al) THEN <<>>
  ELSE (IF i \in SeqToSet(keys) THEN <<>> ELSE <<At(al, i)>>)
       \o Complement(al, keys, i + 1)
selectComplementUsingKeys(al, keys) == Complement(al, keys, 0)

hasCoverage(al, coverage) ==
  \E i \in 1..Len(al) :
     Count((al[i].bits \ coverage) \cup (coverage \ al[i].bits)) = 0

\* sort.Slice with less(i, j) = Count(i) > Count(j): for the lengths modelled
\* here the Go runtime sorts by insertion, which keeps equal items in order.
RECURSIVE InsertDesc(_, _)
InsertDesc(s, x) ==
  IF s = <<>> THEN <<x>>
  ELSE IF Count(x.bits) > Count(s[Len(s)].bits)
       THEN Append(InsertDesc(SubSeq(s, 1, Len(s) - 1), x), s[Len(s)])
       ELSE Append(s, x)
RECURSIVE SortDesc(_)
SortDesc(s) ==
  IF s = <<>> THEN <<>>
  ELSE InsertDesc(SortDesc(SubSeq(s, 1, Len(s) - 1)), s[Len(s)])

\* The single pass of filterContained over the sorted list: an item is kept
\* unless the most recently kept item contains it.
RECURSIVE KeepPass(_, _, _)
KeepPass(sorted, i, kept) ==
  IF i > Len(sorted) THEN kept
  ELSE IF sorted[i].bits \subseteq kept[Len(kept)].bits
       THEN KeepPass(sorted, i + 1, kept)
       ELSE KeepPass(sorted, i + 1, Append(kept, sorted[i]))

\* Mutant of filterContained: Overlaps in place of Contains.
RECURSIVE KeepPassOverlaps(_, _, _)
KeepPassOverlaps(sorted, i, kept) ==
  IF i > Len(sorted) THEN kept
  ELSE IF sorted[i].bits \cap kept[Len(kept)].bits # {}
       THEN KeepPassOverlaps(sorted, i + 1, kept)
       ELSE KeepPassOverlaps(sorted, i + 1, Append(kept, sorted[i]))
filterContainedOverlaps(al) ==
  IF Len(al) < 2 THEN [kept |-> al, store |-> al]
  ELSE LET sorted == SortDesc(al)
           kept == KeepPassOverlaps(sorted, 2, <<sorted[1]>>)
       IN [kept |-> kept,
           store |-> kept \o SubSeq(sorted, Len(kept) + 1, Len(sorted))]

\* filterContained: the kept items and the storage of al after the call
\* (al is sorted in place, the kept items are written to its front).
filterContained(al) ==
  IF Len(al) < 2 THEN [kept |-> al, store |-> al]
  ELSE LET sorted == SortDesc(al)
           kept == KeepPass(sorted, 2, <<sorted[1]>>)
       IN [kept |-> kept,
           store |-> kept \o SubSeq(sorted, Len(kept) + 1, Len(sorted))]

\* attList.aggregate: fails when a signature does not decode.
aggregate(al, coverage, newId) ==
  IF Len(al) < 2 THEN [err |-> TRUE, att |-> NilAtt]
  ELSE IF \E i \in 1..Len(al) : ~al[i].sig THEN [err |-> TRUE, att |-> NilAtt]
  ELSE [err |-> FALSE,
        att |-> [id |-> newId, len |-> al[1].len, bits |-> coverage, sig |-> TRUE]]

----------------------------------------------------------------------------
\* Inputs.

\* The bit vectors of the lengths in lens.
Patterns(lens) ==
  UNION {{[len |-> l, bits |-> b] : b \in SUBSET (0..(l - 1))} : l \in lens}

\* The list of attestations with the bit vectors p whose signatures at the
\* positions in bad do not decode.
AttList(p, bad) ==
  [i \in 1..Len(p) |-> [id |-> i, len |-> p[i].len, bits |-> p[i].bits,
                        sig |-> (i \notin bad)]]

\* Equal-length lists, at most MaxBadSigs undecodable signatures.
ValidInput(in) ==
  \E n \in 0..MaxAtts : \E bad \in SUBSET (1..n) :
     /\ Cardinality(bad) <= MaxBadSigs
     /\ \E p \in [1..n -> Patterns({MaxBits})] : in = AttList(p, bad)

\* Lists that may mix the lengths 0, 1 and MaxBits.
MixedInput(in) ==
  \E n \in 2..LenMaxAtts :
     \E p \in [1..n -> Patterns({0, 1, MaxBits})] : in = AttList(p, {})

----------------------------------------------------------------------------
\* MaxCoverAttestationAggregation.

mcUnaggregated == Window(mcArr, 0, mcUnLen)

mcInit ==
  /\ mcPc = "start"
  /\ mcArr = input
  /\ mcUnLen = Len(input)
  /\ mcAgg = <<>>
  /\ mcI = 0
  /\ mcRes = <<>>
  /\ mcErr = "none"
  /\ mcLog = <<>>

mcReturn(res, err) ==
  /\ mcPc' = "done"
  /\ mcRes' = res
  /\ mcErr' = err

\* Lines 18-30: the length check and validation.
MaxCoverStart ==
  /\ mcPc = "start"
  /\ UNCHANGED <<input, optVars, mcArr, mcUnLen, mcAgg, mcI, mcLog>>
  /\ IF Len(mcArr) < 2 THEN mcReturn(mcArr, "none")
     ELSE LET v == validate(mcUnaggregated)
          IN IF v = "difflen" THEN mcReturn(mcUnaggregated, "none")
             ELSE IF v # "ok" THEN mcReturn(<<>>, v)
             ELSE /\ mcPc' = "loop"
                  /\ UNCHANGED <<mcRes, mcErr>>

mcLoopCond == mcI < Len(mcArr) \div 2 /\ mcUnLen >= 2

\* Lines 34-60: one round of the loop.
MaxCoverRound ==
  /\ mcPc = "loop"
  /\ mcLoopCond
  /\ UNCHANGED <<input, optVars>>
  /\ LET un == mcUnaggregated
         solution == MaxCover(NewMaxCover(un), Len(mcArr))
         entry == [cov |-> solution.coverage, keys |-> solution.keys,
                   un |-> un, cands |-> NewMaxCover(un), signed |-> <<>>,
                   before |-> mcAgg, made |-> FALSE, failed |-> FALSE,
                   agg |-> NilAtt, appended |-> FALSE]
     IN IF solution.err
        THEN /\ mcReturn(merge(mcAgg, un), "solver")
             /\ UNCHANGED <<mcArr, mcUnLen, mcAgg, mcI, mcLog>>
        ELSE IF Len(solution.keys) < 2
        THEN /\ mcPc' = "filter"
             /\ UNCHANGED <<mcArr, mcUnLen, mcAgg, mcI, mcRes, mcErr, mcLog>>
        ELSE LET make == ~hasCoverage(mcAgg, solution.coverage)
                 sel == selectUsingKeys(un, solution.keys)
                 r == aggregate(sel, solution.coverage, Len(mcArr) + mcI + 1)
                 rest == selectComplementUsingKeys(un, solution.keys)
             IN IF make /\ r.err
                THEN /\ mcReturn(merge(mcAgg, un), "sig")
                     /\ mcLog' = Append(mcLog, [entry EXCEPT !.failed = TRUE])
                     /\ UNCHANGED <<mcArr, mcUnLen, mcAgg, mcI>>
                ELSE /\ mcAgg' = IF make THEN Append(mcAgg, r.att) ELSE mcAgg
                     /\ mcLog' = Append(mcLog,
                          IF make THEN [entry EXCEPT !.made = TRUE, !.signed = sel,
                                                    !.agg = r.att,
                                                    !.appended = TRUE]
                          ELSE entry)
                     \* filtered := al[:0] writes the kept items to the front
                     \* of the caller's array.
                     /\ mcArr' = rest \o SubSeq(mcArr, Len(rest) + 1, Len(mcArr))
                     /\ mcUnLen' = Len(rest)
                     /\ mcI' = mcI + 1
                     /\ UNCHANGED <<mcPc, mcRes, mcErr>>

\* Line 62: the loop is over (by break or by its condition).
MaxCoverReturn ==
  /\ mcPc = "filter" \/ (mcPc = "loop" /\ ~mcLoopCond)
  /\ UNCHANGED <<input, optVars, mcUnLen, mcAgg, mcI, mcLog>>
  /\ LET f == filterContained(mcUnaggregated)
     IN /\ mcReturn(merge(mcAgg, f.kept), "none")
        /\ mcArr' = f.store \o SubSeq(mcArr, mcUnLen + 1, Len(mcArr))

----------------------------------------------------------------------------
\* optMaxCoverAttestationAggregation.

\* Bitlist.Bytes / Bitlist64.Bytes: the bits as the number their bytes spell.
RECURSIVE Pow2(_)
Pow2(n) == IF n = 0 THEN 1 ELSE 2 * Pow2(n - 1)
RECURSIVE Weigh(_)
Weigh(S) ==
  IF S = {} THEN 0
  ELSE LET x == CHOOSE y \in S : TRUE IN Pow2(x) + Weigh(S \ {x})
Bytes(b) == [n |-> b.len, v |-> Weigh(b.bits)]
\* bitfield.NewBitlist64FromBytes: bit i is set when the bytes have it set.
NewBitlist64FromBytes(e) ==
  [len |-> e.n, bits |-> {i \in 0..(e.n - 1) : (e.v \div Pow2(i)) % 2 = 1}]

XorCount(a, b) == Count((a \ b) \cup (b \ a))

\* aggregateAttestations, the loop over selectedKeys.BitIndices(): the
\* first index whose attestation is nil panics, the first whose signature
\* does not decode returns the error.
RECURSIVE ScanSignatures(_, _, _)
ScanSignatures(atts, idxs, i) ==
  IF i > Len(idxs) THEN "ok"
  ELSE IF ~InRange(idxs[i], Len(atts)) THEN "panic"
  ELSE IF At(atts, idxs[i]).id = 0 THEN "panic"
  ELSE IF ~At(atts, idxs[i]).sig THEN "err"
  ELSE ScanSignatures(atts, idxs, i + 1)

aggregateAttestations(atts, selectedKeys, coverage, newId) ==
  LET idxs == SetToSeq(selectedKeys)
      scan == ScanSignatures(atts, idxs, 1)
  IN IF Cardinality(selectedKeys) < 2
     THEN [out |-> "err", targetIdx |-> 0, atts |-> atts, signed |-> <<>>]
     ELSE IF scan # "ok"
     THEN [out |-> scan, targetIdx |-> 0, atts |-> atts, signed |-> <<>>]
     ELSE LET bl == NewBitlist64FromBytes(Bytes(coverage))
          IN [out |-> "ok", targetIdx |-> idxs[1],
              atts |-> Put(atts, idxs[1],
                           [id |-> newId, len |-> bl.len, bits |-> bl.bits,
                            sig |-> TRUE]),
              signed |-> [i \in 1..Len(idxs) |-> At(atts, idxs[i])]]

\* rearrangeProcessedAttestations, first loop: nil the processed entries.
\* candidates is the window (cOff, cLen) of the array cands.
RECURSIVE NilProcessed(_, _, _, _, _, _)
NilProcessed(atts, cands, cOff, cLen, keys, i) ==
  IF i > Len(keys) THEN [panic |-> FALSE, atts |-> atts, cands |-> cands]
  ELSE IF ~InRange(keys[i], Len(atts))
       THEN [panic |-> TRUE, atts |-> atts, cands |-> cands]
  ELSE IF ~InRange(keys[i], cLen)
       THEN [panic |-> TRUE, atts |-> Put(atts, keys[i], NilAtt), cands |-> cands]
       ELSE NilProcessed(Put(atts, keys[i], NilAtt),
                         Put(cands, cOff + keys[i], NilCand),
                         cOff, cLen, keys, i + 1)

\* The inner loop: the last index above idx0 that holds a non-nil item.
RECURSIVE LastNonNil(_, _, _)
LastNonNil(atts, idx0, idx1) ==
  IF idx1 > idx0 /\ At(atts, idx1).id = 0
  THEN LastNonNil(atts, idx0, idx1 - 1)
  ELSE idx1

\* Second loop: swap every processed slot with the last non-nil item.
RECURSIVE MoveProcessed(_, _, _, _, _, _)
MoveProcessed(atts, cands, cOff, cLen, keys, i) ==
  IF i > Len(keys) THEN [panic |-> FALSE, atts |-> atts, cands |-> cands]
  ELSE LET idx0 == keys[i]
           idx1 == LastNonNil(atts, idx0, Len(atts) - 1)
       IN IF idx0 = idx1
          THEN MoveProcessed(atts, cands, cOff, cLen, keys, i + 1)
          ELSE IF ~InRange(idx0, Len(atts)) \/ ~InRange(idx1, Len(atts))
          THEN [panic |-> TRUE, atts |-> atts, cands |-> cands]
          ELSE IF ~InRange(idx0, cLen) \/ ~InRange(idx1, cLen)
          THEN [panic |-> TRUE, atts |-> Swap(atts, idx0, idx1), cands |-> cands]
          ELSE MoveProcessed(Swap(atts, idx0, idx1),
                             Swap(cands, cOff + idx0, cOff + idx1),
                             cOff, cLen, keys, i + 1)

rearrangeProcessedAttestations(atts, cands, cOff, cLen, processedKeys) ==
  LET r == NilProcessed(atts, cands, cOff, cLen, processedKeys, 1)
  IN IF r.panic THEN r
     ELSE MoveProcessed(r.atts, r.cands, cOff, cLen, processedKeys, 1)

\* append(aggregated, xs...) on the shared array: the result, and the array
\* after the copy (in place while the capacity lasts).
appendAggregated(atts, aggLen, xs) ==
  [res |-> Window(atts, 0, aggLen) \o xs,
   atts |-> IF aggLen + Len(xs) <= Len(atts)
            THEN [k \in 1..Len(atts) |->
                    IF aggLen < k /\ k <= aggLen + Len(xs)
                    THEN xs[k - aggLen] ELSE atts[k]]
            ELSE atts]

optUnaggregated == Window(optAtts, optUnOff, optUnLen)
optCandidates == Window(optCands, optCOff, optCLen)

optInit ==
  /\ optPc = "start"
  /\ optAtts = input
  /\ optCands = <<>>
  /\ optAggLen = 0
  /\ optUnOff = 0
  /\ optUnLen = 0
  /\ optCOff = 0
  /\ optCLen = 0
  /\ optCovered = {}
  /\ optI = 0
  /\ optRes = <<>>
  /\ optErr = "none"
  /\ optLog = <<>>

optReturn(res, err) ==
  /\ optPc' = "done"
  /\ optRes' = res
  /\ optErr' = err

optPanic ==
  /\ optPc' = "panic"
  /\ UNCHANGED <<optRes, optErr>>

\* Lines 70-94: the length check, validation and the set-up of the slices.
\* The caller runs this engine once the straightforward one has returned.
OptStart ==
  /\ optPc = "start"
  /\ mcPc = "done"
  /\ UNCHANGED <<input, mcVars, optAtts, optAggLen, optUnOff, optCOff,
                 optCovered, optI, optLog>>
  /\ IF Len(optAtts) < 2
     THEN /\ optReturn(optAtts, "none")
          /\ UNCHANGED <<optCands, optUnLen, optCLen>>
     ELSE LET v == validate(optAtts)
          IN IF v = "difflen"
             THEN /\ optReturn(optAtts, "none")
                  /\ UNCHANGED <<optCands, optUnLen, optCLen>>
             ELSE IF v # "ok"
             THEN /\ optReturn(<<>>, v)
                  /\ UNCHANGED <<optCands, optUnLen, optCLen>>
             ELSE /\ optPc' = "loop"
                  /\ optCands' = [i \in 1..Len(optAtts) |->
                                    NewBitlist64FromBytes(Bytes(optAtts[i]))]
                  /\ optUnLen' = Len(optAtts)
                  /\ optCLen' = Len(optAtts)
                  /\ UNCHANGED <<optRes, optErr>>

optLoopCond == optI < Len(optAtts) \div 2 /\ optUnLen >= 2

\* The state of the optimized engine as one record, and its write-back.
optState ==
  [pc |-> optPc, atts |-> optAtts, cands |-> optCands, aggLen |-> optAggLen,
   unOff |-> optUnOff, unLen |-> optUnLen, cOff |-> optCOff, cLen |-> optCLen,
   covered |-> optCovered, i |-> optI, res |-> optRes, err |-> optErr,
   log |-> optLog]

optSet(o) ==
  /\ optPc' = o.pc
  /\ optAtts' = o.atts
  /\ optCands' = o.cands
  /\ optAggLen' = o.aggLen
  /\ optUnOff' = o.unOff
  /\ optUnLen' = o.unLen
  /\ optCOff' = o.cOff
  /\ optCLen' = o.cLen
  /\ optCovered' = o.covered
  /\ optI' = o.i
  /\ optRes' = o.res
  /\ optErr' = o.err
  /\ optLog' = o.log

\* return append(aggregated, unaggregated...), err
optFail(o, err) ==
  LET a == appendAggregated(o.atts, o.aggLen, Window(o.atts, o.unOff, o.unLen))
  IN [o EXCEPT !.pc = "done", !.res = a.res, !.atts = a.atts, !.err = err]

\* Lines 140-144: remove the processed attestations and cut the slices.
optRemoveProcessed(o, keys) ==
  LET processedKeys == SetToSeq(keys)
      r == rearrangeProcessedAttestations(o.atts, o.cands, o.cOff, o.cLen,
                                          processedKeys)
      unLen == o.unLen - Len(processedKeys)
      cLen == unLen - Len(processedKeys)
  IN IF r.panic THEN [o EXCEPT !.pc = "panic", !.atts = r.atts, !.cands = r.cands]
     ELSE IF ~InRange(unLen, Len(o.atts) - o.unOff + 1)
     THEN [o EXCEPT !.pc = "panic", !.atts = r.atts, !.cands = r.cands]
     ELSE IF ~InRange(cLen, Len(o.cands) - o.cOff + 1)
     THEN [o EXCEPT !.pc = "panic", !.atts = r.atts, !.cands = r.cands,
                    !.unLen = unLen]
     ELSE [o EXCEPT !.atts = r.atts, !.cands = r.cands, !.unLen = unLen,
                    !.cLen = cLen, !.i = o.i + 1]

\* Lines 117-138: materialize the aggregate in place.
optMaterialize(o, keys, coverage, entry) ==
  LET a == aggregateAttestations(o.atts, keys, coverage, Len(o.atts) + o.i + 1)
      aggIdx == a.targetIdx
      idx0 == o.aggLen
      swap == idx0 < aggIdx
      \* aggregated is extended inside the if only (line 128).
      made == [entry EXCEPT !.made = TRUE, !.signed = a.signed,
                            !.agg = At(a.atts, aggIdx), !.appended = swap]
  IN IF a.out = "panic" THEN [o EXCEPT !.pc = "panic"]
     ELSE IF a.out = "err"
     THEN optFail([o EXCEPT !.log = Append(o.log, [entry EXCEPT !.failed = TRUE])],
                  "sig")
     ELSE IF swap /\ (~InRange(idx0, o.cLen) \/ ~InRange(aggIdx, o.cLen))
     THEN [o EXCEPT !.pc = "panic", !.atts = Swap(a.atts, idx0, aggIdx),
                    !.log = Append(o.log, made)]
     ELSE IF o.unLen < 1 \/ o.cLen < 1
     THEN [o EXCEPT !.pc = "panic", !.atts = a.atts, !.log = Append(o.log, made)]
     ELSE optRemoveProcessed(
            [o EXCEPT
               !.atts = IF swap THEN Swap(a.atts, idx0, aggIdx) ELSE a.atts,
               !.cands = IF swap
                         THEN Swap(o.cands, o.cOff + idx0, o.cOff + aggIdx)
                         ELSE o.cands,
               !.aggLen = IF swap THEN idx0 + 1 ELSE o.aggLen,
               !.unOff = o.unOff + 1, !.unLen = o.unLen - 1,
               !.cOff = o.cOff + 1, !.cLen = o.cLen - 1,
               !.covered = o.covered \cup coverage.bits,
               !.log = Append(o.log, made)],
            keys \ {aggIdx})

\* Lines 98-145: one round of the loop.
optRound(o) ==
  LET cs == Window(o.cands, o.cOff, o.cLen)
      un == Window(o.atts, o.unOff, o.unLen)
      solution == MaxCover(cs, Len(cs))
      keys == SeqToSet(solution.keys)
      coverage == [len |-> cs[1].len, bits |-> solution.coverage]
      entry == [cov |-> solution.coverage, keys |-> solution.keys, un |-> un,
                cands |-> cs, signed |-> <<>>,
                before |-> Window(o.atts, 0, o.aggLen),
                made |-> FALSE, failed |-> FALSE, agg |-> NilAtt,
                appended |-> FALSE]
  IN IF Len(cs) = 0 THEN optFail(o, "solver")
     ELSE IF \E k \in 1..Len(cs) : cs[k].len < 0 THEN [o EXCEPT !.pc = "panic"]
     ELSE IF solution.err THEN optFail(o, "solver")
     ELSE IF Cardinality(keys) < 2 THEN [o EXCEPT !.pc = "filter"]
     ELSE IF XorCount(o.covered, coverage.bits) > 0
     THEN optMaterialize(o, keys, coverage, entry)
     ELSE optRemoveProcessed([o EXCEPT !.log = Append(o.log, entry)], keys)

OptRound ==
  /\ optPc = "loop"
  /\ optLoopCond
  /\ optSet(optRound(optState))
  /\ UNCHANGED <<input, mcVars>>

\* Line 147: the loop is over; filter the unaggregated window and append it
\* to the aggregated one.
optFinish(o) ==
  LET un == Window(o.atts, o.unOff, o.unLen)
      f == filterContained(un)
      stored == [k \in 1..Len(o.atts) |->
                   IF o.unOff < k /\ k <= o.unOff + o.unLen
                   THEN f.store[k - o.unOff] ELSE o.atts[k]]
      a == appendAggregated(stored, o.aggLen, f.kept)
  IN IF Len(un) >= 2 /\ \E k \in 1..Len(un) : un[k].id = 0
     THEN [o EXCEPT !.pc = "panic"]
     ELSE [o EXCEPT !.pc = "done", !.res = a.res, !.atts = a.atts]

OptReturn ==
  /\ optPc = "filter" \/ (optPc = "loop" /\ ~optLoopCond)
  /\ optSet(optFinish(optState))
  /\ UNCHANGED <<input, mcVars>>

----------------------------------------------------------------------------
Init ==
  /\ ValidInput(input) \/ MixedInput(input)
  /\ mcInit
  /\ optInit

Next ==
  \/ MaxCoverStart
  \/ MaxCoverRound
  \/ MaxCoverReturn
  \/ OptStart
  \/ OptRound
  \/ OptReturn

Spec == Init /\ [][Next]_vars

----------------------------------------------------------------------------
\* Properties.

TypeOK ==
  /\ mcPc \in {"start", "loop", "filter", "done"}
  /\ optPc \in {"start", "loop", "filter", "done", "panic"}

\* At least two attestations, equal non-zero lengths, decodable signatures.
WellFormed(in) ==
  /\ Len(in) >= 2
  /\ validate(in) = "ok"
  /\ \A i \in 1..Len(in) : in[i].sig

\* Every attestation has at least one bit set.
NoEmptyBits(in) == \A i \in 1..Len(in) : in[i].bits # {}

Ids(s) == {s[i].id : i \in 1..Len(s)}
StrictlyContained(a, b) == a.bits \subseteq b.bits /\ a.bits # b.bits
\* The attestations the solver selected in a logged round.
Selected(e) == {At(e.un, e.keys[i]) : i \in 1..Len(e.keys)}
\* The aggregates a log records, in creation order.
RECURSIVE Made(_)
Made(log) ==
  IF log = <<>> THEN <<>>
  ELSE (IF Head(log).made THEN <<Head(log).agg>> ELSE <<>>) \o Made(Tail(log))
\* The ids of the input attestations consumed by the completed rounds.
Consumed(log) ==
  UNION {{a.id : a \in Selected(log[i])} :
           i \in {k \in 1..Len(log) : ~log[k].failed}}

DisjointEntry(e) ==
  e.made =>
    /\ Len(e.signed) = Len(e.keys)
    /\ Ids(e.signed) = {a.id : a \in Selected(e)}
    /\ \A i, j \in 1..Len(e.signed) :
         i # j => e.signed[i].bits \cap e.signed[j].bits = {}
    /\ Count(e.agg.bits) = SumCount(e.signed)

\* C2: in every round that materializes an aggregate, the attestations whose
\* signatures are combined are exactly the selected ones, they are pairwise
\* disjoint, and the aggregate's popcount is the sum of theirs.
DisjointPerAggregate ==
  /\ \A i \in 1..Len(mcLog) : DisjointEntry(mcLog[i])
  /\ \A i \in 1..Len(optLog) : DisjointEntry(optLog[i])

\* Both engines materialized an aggregate, one of them from three items.
DisjointWitness ==
  /\ \E i \in 1..Len(mcLog) : mcLog[i].made /\ Len(mcLog[i].signed) >= 3
  /\ \E i \in 1..Len(optLog) : optLog[i].made

NoContainment(res) ==
  \A i, j \in 1..Len(res) : i # j => ~StrictlyContained(res[i], res[j])

\* C3: a list returned without error on a well-formed input (here: one
\* whose attestations all have a bit set) holds no two attestations of which
\* one's bits are a strict subset of the other's.
NoResidualContainment ==
  (WellFormed(input) /\ NoEmptyBits(input)) =>
    /\ (mcPc = "done" /\ mcErr = "none") => NoContainment(mcRes)
    /\ (optPc = "done" /\ optErr = "none") => NoContainment(optRes)

\* C4: both engines finish, with the same error outcome and the same
\* multiset of bit vectors.
VariantEquivalence ==
  (mcPc = "done" /\ optPc \in {"done", "panic"}) =>
    /\ optPc = "done"
    /\ mcErr = optErr
    /\ BitsBag(mcRes) = BitsBag(optRes)

\* The list mixes two bit-vector lengths.
MixesLengths(in) ==
  /\ Len(in) >= 2
  /\ \E i, j \in 1..Len(in) : in[i].len # in[j].len

ReturnsInput ==
  /\ mcPc = "done" => (mcRes = input /\ mcErr = "none" /\ mcLog = <<>>)
  /\ optPc = "done" => (optRes = input /\ optErr = "none" /\ optLog = <<>>)
  /\ optPc # "panic"

\* C5 as stated: a list mixing two lengths is returned unchanged, without a
\* fatal error, by either engine.
MismatchReturnsInput == MixesLengths(input) => ReturnsInput

\* C5 amended: the same when the first bit vector is not of length zero.
MismatchReturnsInputNonEmptyFirst ==
  (MixesLengths(input) /\ input[1].len > 0) => ReturnsInput

\* Both engines returned on a mixed list whose first vector is not empty.
MismatchWitness ==
  /\ MixesLengths(input)
  /\ input[1].len > 0
  /\ mcPc = "done"
  /\ optPc = "done"

BestEffort(pc, err, res, log) ==
  (pc = "done" /\ err \in {"solver", "sig"}) =>
    LET aggs == Made(log)
        k == Len(aggs)
        left == Ids(input) \ Consumed(log)
    IN /\ Len(res) = k + Cardinality(left)
       /\ SubSeq(res, 1, k) = aggs
       /\ {res[i].id : i \in (k + 1)..Len(res)} = left
       /\ \A i \in (k + 1)..Len(res) : res[i] = input[res[i].id]
       /\ \A i \in 1..Len(log) : log[i].failed => Selected(log[i]) \subseteq SeqToSet(res)
       /\ UnionBits(input) \subseteq UnionBits(res)

\* C6: a round that fails after validation returns the error with the
\* aggregates of the earlier rounds followed by every attestation still
\* unaggregated, the ones selected in the failing round included.
BestEffortOnError ==
  /\ BestEffort(mcPc, mcErr, mcRes, mcLog)
  /\ BestEffort(optPc, optErr, optRes, optLog)

\* A signature failed to decode in a round that followed an aggregation.
BestEffortWitness ==
  /\ mcPc = "done"
  /\ mcErr = "sig"
  /\ Len(mcLog) >= 2
  /\ mcLog[1].made

\* C7: when MaxCoverAttestationAggregation has returned (here: on a
\* well-formed input whose attestations all have a bit set), the caller's
\* array holds the same attestations at the same positions as before the call.
InputReadOnly ==
  (mcPc = "done" /\ WellFormed(input) /\ NoEmptyBits(input)) => mcArr = input

\* C8: at the exit of the loop of MaxCoverAttestationAggregation on a
\* well-formed input (here: one whose attestations all have a bit set), at
\* most n/2 rounds were run and every two unaggregated attestations overlap.
AllRemainingOverlap ==
  ((mcPc = "filter" \/ (mcPc = "loop" /\ ~mcLoopCond))
     /\ WellFormed(input) /\ NoEmptyBits(input)) =>
    /\ mcI <= Len(input) \div 2
    /\ \A i, j \in 1..mcUnLen :
         i # j => mcArr[i].bits \cap mcArr[j].bits # {}

SkipEntry(e) ==
  ~e.failed =>
    (e.appended <=> ~\E i \in 1..Len(e.before) : e.before[i].bits = e.cov)

DistinctAggregates(res) ==
  \A i, j \in 1..Len(res) :
     (i # j /\ res[i].id > Len(input) /\ res[j].id > Len(input))
       => res[i].bits # res[j].bits

\* C9: a round with a selection of two or more appends a new aggregate to
\* the results exactly when no earlier aggregate has the same coverage, and
\* no two aggregates of a returned list have the same bits.
DuplicateSkip ==
  /\ \A i \in 1..Len(mcLog) : SkipEntry(mcLog[i])
  /\ \A i \in 1..Len(optLog) : SkipEntry(optLog[i])
  /\ mcPc = "done" => DistinctAggregates(mcRes)
  /\ optPc = "done" => DistinctAggregates(optRes)

\* C10: at the start of every round of the optimized engine the array is
\* the aggregates made so far followed by the unconsumed attestations,
\* candidates mirrors the unaggregated window, and no index leaves its bounds.
OptPartition ==
  /\ optPc # "panic"
  /\ optPc = "loop" =>
       /\ Window(optAtts, 0, optAggLen) = Made(optLog)
       /\ optUnOff = optAggLen
       /\ \A i \in 1..optUnLen : optUnaggregated[i].id # 0
       /\ Ids(optUnaggregated) = Ids(input) \ Consumed(optLog)
       /\ optCLen = optUnLen
       /\ \A i \in 1..optUnLen : optCandidates[i].bits = optUnaggregated[i].bits

====
